---- MODULE Spec2Model ----
(***************************************************************************)
(* fix_checksum.py: update_checksum_file() rebuilds the `files` table of   *)
(* ./.cargo-checksum.json, keeping only the listed paths that still exist  *)
(* and recording the SHA-256 digest of each one's current content.         *)
(*                                                                         *)
(* The model follows the function statement by statement (the pc values    *)
(* are the source line numbers), over a small file system.                 *)
(***************************************************************************)
EXTENDS Integers, Sequences, FiniteSets, TLC

\* ---------------------------------------------------------------- bounds
\* most entries of the `files` member of an initial manifest
MaxEntries == 2
\* most top-level members (duplicates included) of an initial manifest
MaxFields == 2
\* most successive invocations of the tool
MaxRuns == 2
\* most deletions by the external actor (SpecEnv only)
MaxDeletes == 1

\* ------------------------------------------------------------ file names
MANIFEST == ".cargo-checksum.json"
MANIFEST_ALIAS == "./.cargo-checksum.json"
\* the files of the working directory
Files == {MANIFEST, "a.txt", "b.txt"}
\* the path strings a manifest may list
ListedPaths == {"a.txt", "b.txt", MANIFEST, MANIFEST_ALIAS}

\* The file a path string names: open() and os.path.exists() are given the
\* string, the kernel resolves it relative to the working directory.
Resolve(path) == IF path = MANIFEST_ALIAS THEN MANIFEST ELSE path

\* --------------------------------------------------------- file contents
\* A byte content is one of
\*   fmt = "raw"     bytes that are no JSON document (id tells them apart;
\*                   id 0 is the empty file)
\*   fmt = "spaced"  a JSON document with insignificant whitespace
\*   fmt = "compact" a JSON document as json.dump(separators=(',',':'))
\*                   writes it
\* A document is top = "object" with its members in text order (a member
\* name may be repeated in the text), or top = "array".
Raw(n) == [fmt |-> "raw", id |-> n, top |-> "none", fields |-> <<>>]
JsonText(fmt, top, fields) == [fmt |-> fmt, id |-> 0, top |-> top, fields |-> fields]

\* JSON values of the members: a scalar (number, null, true: not iterable),
\* an object (name/value pairs in text order) or an array of strings.
Scalar(n) == [type |-> "scalar", n |-> n, members |-> <<>>, items |-> <<>>]
Obj(members) == [type |-> "object", n |-> 0, members |-> members, items |-> <<>>]
Arr(items) == [type |-> "array", n |-> 0, members |-> <<>>, items |-> items]

\* hashlib.sha256(bytes).hexdigest(): the digest determines the content
\* (collision-free idealisation of SHA-256).
Sha256(bytes) == [sha256 |-> bytes]

\* ------------------------------------------------------------ Python dict
\* A dict is its items in insertion order, with distinct keys.
DictKeys(d) == [i \in 1..Len(d) |-> d[i][1]]
HasKey(d, k) == \E i \in 1..Len(d) : d[i][1] = k
DictGet(d, k) == d[CHOOSE i \in 1..Len(d) : d[i][1] = k][2]
\* variant of d[k] = v with a slip: a new key is put first
DictSet_new_key_first(d, k, v) ==
  IF HasKey(d, k)
    THEN [i \in 1..Len(d) |-> IF d[i][1] = k THEN <<k, v>> ELSE d[i]]
    ELSE <<<<k, v>>>> \o d

\* d[k] = v: an existing key keeps its position, a new key goes last
DictSet(d, k, v) ==
  IF HasKey(d, k)
    THEN [i \in 1..Len(d) |-> IF d[i][1] = k THEN <<k, v>> ELSE d[i]]
    ELSE Append(d, <<k, v>>)

\* dict(pairs), as the JSON decoder builds an object: first position, last value
RECURSIVE DictOf(_)
DictOf(pairs) ==
  IF pairs = <<>> THEN <<>>
  ELSE LET n == Len(pairs)
       IN DictSet(DictOf(SubSeq(pairs, 1, n - 1)), pairs[n][1], pairs[n][2])

\* -------------------------------------------------------------- json
\* The decoded value of a member's value.
JsonLoadValue(v) ==
  IF v.type = "object" THEN Obj(DictOf(v.members)) ELSE v

RECURSIVE JsonLoadPairs(_)
JsonLoadPairs(pairs) ==
  IF pairs = <<>> THEN <<>>
  ELSE <<<<pairs[1][1], JsonLoadValue(pairs[1][2])>>>> \o JsonLoadPairs(Tail(pairs))

NoData == [top |-> "none", fields |-> <<>>]

\* json.load(f): JSONDecodeError on bytes that are no JSON document; else the
\* decoded document: whitespace is gone, an object is a dict.
JsonLoad(bytes) ==
  IF bytes.fmt = "raw"
    THEN [ok |-> FALSE, data |-> NoData]
    ELSE [ok |-> TRUE,
          data |-> [top |-> bytes.top, fields |-> DictOf(JsonLoadPairs(bytes.fields))]]

\* json.dump(data, f, separators=(',', ':')): the compact text, members in
\* dict order.
JsonDump(d) == JsonText("compact", d.top, d.fields)

\* iter(data['files']): the keys of a dict, the items of a list
IterOf(v) == IF v.type = "object" THEN DictKeys(v.members) ELSE v.items

\* ------------------------------------------------------------ file system
Absent == [kind |-> "absent", readable |-> FALSE, writable |-> FALSE, content |-> Raw(0)]
RegularFile(bytes, r, w) == [kind |-> "file", readable |-> r, writable |-> w, content |-> bytes]
Directory == [kind |-> "dir", readable |-> TRUE, writable |-> TRUE, content |-> Raw(0)]

\* os.path.exists(path)
Exists(d, path) == d[Resolve(path)].kind # "absent"

\* The exception open(path, 'r' / 'rb') raises, "none" when it succeeds.
OpenReadError(d, path) ==
  LET st == d[Resolve(path)]
  IN IF st.kind = "absent" THEN "FileNotFoundError"
     ELSE IF st.kind = "dir" THEN "IsADirectoryError"
     ELSE IF ~st.readable THEN "PermissionError"
     ELSE "none"

\* The exception open(path, 'w') raises, "none" when it succeeds (an absent
\* file is created).
OpenWriteError(d, path) ==
  LET st == d[Resolve(path)]
  IN IF st.kind = "dir" THEN "IsADirectoryError"
     ELSE IF st.kind = "file" /\ ~st.writable THEN "PermissionError"
     ELSE "none"

\* ------------------------------------------------------------------ state
VARIABLES
  disk,      \* the working directory: file -> state
  pc,        \* "idle" before the first run; the line about to execute;
             \* "returned" / "raised" after a run
  data,      \* the local `data`
  files,     \* the local `files`
  iter,      \* what the for loop has still to yield
  filename,  \* the loop variable
  f,         \* the open file objects, innermost last
  error,     \* the exception that ended the run, "none" otherwise
  runs,      \* invocations so far
  deletes,   \* deletions by the external actor so far
  pre,       \* history: the working directory when the run began
  trace,     \* history: the file-system calls of the run, in order
  results,   \* history: the manifest file after each finished run
  raced,     \* history: files the external actor deleted between the
             \* existence check of a listed path and its open, this run
  removed    \* history: files the external actor deleted during this run

vars == <<disk, pc, data, files, iter, filename, f, error, runs, deletes,
          pre, trace, results, raced, removed>>

\* a file-system call: op is "exists", "open", "read", "write" or "close";
\* mode is the mode of the file object ("" for exists); ok is the answer of
\* exists, and whether another call succeeded
Event(op, path, mode, ok) == [op |-> op, path |-> path, mode |-> mode, ok |-> ok]
Handle(path, mode, bytes) == [path |-> path, mode |-> mode, bytes |-> bytes]

\* ---------------------------------------------------------- initial states
SeqsUpTo(S, n) == UNION {[1..k -> S] : k \in 0..n}

\* a digest recorded earlier, of a content no file has any more
StaleDigest == Sha256(Raw(9))

EntryLists == SeqsUpTo(ListedPaths, MaxEntries)
FilesValues ==
  {Obj([i \in 1..Len(s) |-> <<s[i], StaleDigest>>]) : s \in EntryLists}
    \cup {Arr(s) : s \in SeqsUpTo(ListedPaths, 1)}
    \cup {Scalar(0)}

\* The members of a manifest text: the names in `shape`; the last "files"
\* member has value v (an earlier one, overridden when decoded, is {}), each
\* other member a scalar of its own.
MembersOf(shape, v) ==
  [i \in 1..Len(shape) |->
     IF shape[i] = "files"
       THEN IF \E j \in (i + 1)..Len(shape) : shape[j] = "files"
              THEN <<"files", Obj(<<>>)>>
              ELSE <<"files", v>>
       ELSE <<shape[i], Scalar(i)>>]

ManifestTexts ==
  {JsonText("spaced", "object", MembersOf(shape, v)) :
      shape \in SeqsUpTo({"package", "files"}, MaxFields), v \in FilesValues}
    \cup {Raw(0), Raw(3), JsonText("spaced", "array", <<>>)}

ManifestStates ==
  {RegularFile(t, TRUE, TRUE) : t \in ManifestTexts}
    \cup {RegularFile(JsonText("spaced", "object", MembersOf(<<"files">>, Obj(<<>>))), r, ~r) :
            r \in BOOLEAN}
    \cup {Absent}

InitLocals ==
  /\ pc = "idle"
  /\ data = NoData
  /\ files = <<>>
  /\ iter = <<>>
  /\ filename = ""
  /\ f = <<>>
  /\ error = "none"
  /\ runs = 0
  /\ deletes = 0
  /\ pre = disk
  /\ trace = <<>>
  /\ results = <<>>
  /\ raced = {}
  /\ removed = {}

Init ==
  /\ disk \in {[p \in Files |->
                  IF p = MANIFEST THEN m ELSE IF p = "a.txt" THEN a ELSE b] :
                 m \in ManifestStates,
                 a \in {Absent, RegularFile(Raw(1), TRUE, TRUE)},
                 b \in {Absent,
                        RegularFile(Raw(2), TRUE, TRUE),
                        RegularFile(Raw(2), FALSE, TRUE),
                        Directory}}
  /\ InitLocals

\* ------------------------------------------------------------------ steps
\* The run ends by `return` or by falling off the end of the function.
Return ==
  /\ pc' = "returned"
  /\ error' = "none"
  /\ results' = Append(results, disk'[MANIFEST])

\* The run ends by an exception nothing catches.
Raise(exc) ==
  /\ pc' = "raised"
  /\ error' = exc
  /\ results' = Append(results, disk'[MANIFEST])

\* variant of lines 9-10 with a slip: the `return` is missing
L9_exists_manifest_no_return ==
  /\ pc \in {"idle", "returned", "raised"}
  /\ runs < MaxRuns
  /\ runs' = runs + 1
  /\ pre' = disk
  /\ raced' = {}
  /\ removed' = {}
  /\ data' = NoData
  /\ files' = <<>>
  /\ iter' = <<>>
  /\ filename' = ""
  /\ trace' = <<Event("exists", MANIFEST, "", Exists(disk, MANIFEST))>>
  /\ pc' = "L13"
  /\ error' = "none"
  /\ UNCHANGED <<disk, f, deletes, results>>

\* lines 9-10: the tool is started; if not os.path.exists(manifest): return
L9_exists_manifest ==
  /\ pc \in {"idle", "returned", "raised"}
  /\ runs < MaxRuns
  /\ runs' = runs + 1
  /\ pre' = disk
  /\ raced' = {}
  /\ removed' = {}
  /\ data' = NoData
  /\ files' = <<>>
  /\ iter' = <<>>
  /\ filename' = ""
  /\ trace' = <<Event("exists", MANIFEST, "", Exists(disk, MANIFEST))>>
  /\ UNCHANGED <<disk, f, deletes>>
  /\ IF ~Exists(disk, MANIFEST)
       THEN Return
       ELSE /\ pc' = "L13"
            /\ error' = "none"
            /\ UNCHANGED results

\* line 13: with open('.cargo-checksum.json', 'r') as f:
L13_open_manifest ==
  /\ pc = "L13"
  /\ UNCHANGED <<disk, data, files, iter, filename, runs, deletes, pre, raced, removed>>
  /\ LET exc == OpenReadError(disk, MANIFEST)
     IN /\ trace' = Append(trace, Event("open", MANIFEST, "r", exc = "none"))
        /\ IF exc # "none"
             THEN /\ Raise(exc)
                  /\ UNCHANGED f
             ELSE /\ f' = Append(f, Handle(MANIFEST, "r", disk[MANIFEST].content))
                  /\ pc' = "L14"
                  /\ UNCHANGED <<error, results>>

\* variant of line 14 with a slip: no with statement, f.close() follows
\* json.load and is skipped when json.load raises
L14_json_load_no_with ==
  /\ pc = "L14"
  /\ UNCHANGED <<disk, files, iter, filename, runs, deletes, pre, raced, removed>>
  /\ LET h == f[Len(f)]
         r == JsonLoad(h.bytes)
     IN IF ~r.ok
          THEN /\ trace' = Append(trace, Event("read", h.path, h.mode, TRUE))
               /\ Raise("JSONDecodeError")
               /\ UNCHANGED <<data, f>>
          ELSE /\ trace' = trace \o <<Event("read", h.path, h.mode, TRUE),
                                      Event("close", h.path, h.mode, TRUE)>>
               /\ f' = SubSeq(f, 1, Len(f) - 1)
               /\ data' = r.data
               /\ pc' = "L17"
               /\ UNCHANGED <<error, results>>

\* line 14: data = json.load(f), then the with statement closes f, also
\* when json.load raises
L14_json_load ==
  /\ pc = "L14"
  /\ UNCHANGED <<disk, files, iter, filename, runs, deletes, pre, raced, removed>>
  /\ LET h == f[Len(f)]
         r == JsonLoad(h.bytes)
     IN /\ trace' = trace \o <<Event("read", h.path, h.mode, TRUE), Event("close", h.path, h.mode, TRUE)>>
        /\ f' = SubSeq(f, 1, Len(f) - 1)
        /\ IF ~r.ok
             THEN /\ Raise("JSONDecodeError")
                  /\ UNCHANGED data
             ELSE /\ data' = r.data
                  /\ pc' = "L17"
                  /\ UNCHANGED <<error, results>>

\* lines 17-18: files = {}; the for statement evaluates data['files'] and
\* takes its iterator
L17_files_iter ==
  /\ pc = "L17"
  /\ UNCHANGED <<disk, data, filename, f, runs, deletes, pre, trace, raced, removed>>
  /\ files' = <<>>
  /\ IF data.top # "object"
       THEN /\ Raise("TypeError")
            /\ UNCHANGED iter
       ELSE IF ~HasKey(data.fields, "files")
       THEN /\ Raise("KeyError")
            /\ UNCHANGED iter
       ELSE IF DictGet(data.fields, "files").type = "scalar"
       THEN /\ Raise("TypeError")
            /\ UNCHANGED iter
       ELSE /\ iter' = IterOf(DictGet(data.fields, "files"))
            /\ pc' = "L18"
            /\ UNCHANGED <<error, results>>

\* line 18: for filename in ...: the next key, or the loop ends
L18_for ==
  /\ pc = "L18"
  /\ IF iter = <<>>
       THEN /\ pc' = "L24"
            /\ UNCHANGED <<iter, filename>>
       ELSE /\ filename' = Head(iter)
            /\ iter' = Tail(iter)
            /\ pc' = "L19"
  /\ UNCHANGED <<disk, data, files, f, error, runs, deletes, pre, trace, results, raced, removed>>

\* line 19: if os.path.exists(filename):
L19_exists ==
  /\ pc = "L19"
  /\ trace' = Append(trace, Event("exists", filename, "", Exists(disk, filename)))
  /\ pc' = IF Exists(disk, filename) THEN "L20" ELSE "L18"
  /\ UNCHANGED <<disk, data, files, iter, filename, f, error, runs, deletes, pre,
                 results, raced, removed>>

\* variant of line 20 with a slip: a failed open saves what was rebuilt so
\* far before the exception propagates
L20_open_saves_partial ==
  /\ pc = "L20"
  /\ UNCHANGED <<data, files, iter, filename, runs, deletes, pre, raced, removed>>
  /\ LET exc == OpenReadError(disk, filename)
     IN /\ trace' = Append(trace, Event("open", filename, "rb", exc = "none"))
        /\ IF exc # "none"
             THEN /\ disk' = [disk EXCEPT ![MANIFEST].content =
                                JsonDump([data EXCEPT !.fields =
                                            DictSet(data.fields, "files", Obj(files))])]
                  /\ Raise(exc)
                  /\ UNCHANGED f
             ELSE /\ disk' = disk
                  /\ f' = Append(f, Handle(filename, "rb", disk[Resolve(filename)].content))
                  /\ pc' = "L21"
                  /\ UNCHANGED <<error, results>>

\* variant of line 20 with a slip: FileNotFoundError is caught and the entry
\* skipped
L20_open_skips_missing ==
  /\ pc = "L20"
  /\ UNCHANGED <<disk, data, files, iter, filename, runs, deletes, pre, raced, removed>>
  /\ LET exc == OpenReadError(disk, filename)
     IN /\ trace' = Append(trace, Event("open", filename, "rb", exc = "none"))
        /\ IF exc = "FileNotFoundError"
             THEN /\ pc' = "L18"
                  /\ UNCHANGED <<f, error, results>>
             ELSE IF exc # "none"
             THEN /\ Raise(exc)
                  /\ UNCHANGED f
             ELSE /\ f' = Append(f, Handle(filename, "rb", disk[Resolve(filename)].content))
                  /\ pc' = "L21"
                  /\ UNCHANGED <<error, results>>

\* line 20: with open(filename, 'rb') as f:
L20_open ==
  /\ pc = "L20"
  /\ UNCHANGED <<disk, data, files, iter, filename, runs, deletes, pre, raced, removed>>
  /\ LET exc == OpenReadError(disk, filename)
     IN /\ trace' = Append(trace, Event("open", filename, "rb", exc = "none"))
        /\ IF exc # "none"
             THEN /\ Raise(exc)
                  /\ UNCHANGED f
             ELSE /\ f' = Append(f, Handle(filename, "rb", disk[Resolve(filename)].content))
                  /\ pc' = "L21"
                  /\ UNCHANGED <<error, results>>

\* variant of line 21 with a slip: the key is os.path.normpath(filename)
L21_hash_normpath ==
  /\ pc = "L21"
  /\ LET h == f[Len(f)]
     IN /\ files' = DictSet(files, Resolve(filename), Sha256(h.bytes))
        /\ trace' = trace \o <<Event("read", h.path, h.mode, TRUE), Event("close", h.path, h.mode, TRUE)>>
        /\ f' = SubSeq(f, 1, Len(f) - 1)
  /\ pc' = "L18"
  /\ UNCHANGED <<disk, data, iter, filename, error, runs, deletes, pre, results, raced, removed>>

\* variant of line 21 with a slip: the digest of nothing, f.read() is not
\* passed to sha256
L21_hash_of_nothing ==
  /\ pc = "L21"
  /\ LET h == f[Len(f)]
     IN /\ files' = DictSet(files, filename, Sha256(Raw(0)))
        /\ trace' = trace \o <<Event("read", h.path, h.mode, TRUE), Event("close", h.path, h.mode, TRUE)>>
        /\ f' = SubSeq(f, 1, Len(f) - 1)
  /\ pc' = "L18"
  /\ UNCHANGED <<disk, data, iter, filename, error, runs, deletes, pre, results, raced, removed>>

\* variant of line 21 with a slip: the listed file is opened 'w+b', which
\* truncates it
L21_hash_truncates ==
  /\ pc = "L21"
  /\ LET h == f[Len(f)]
     IN /\ files' = DictSet(files, filename, Sha256(Raw(0)))
        /\ trace' = trace \o <<Event("read", h.path, h.mode, TRUE), Event("close", h.path, h.mode, TRUE)>>
        /\ f' = SubSeq(f, 1, Len(f) - 1)
        /\ disk' = [disk EXCEPT ![Resolve(filename)].content = Raw(0)]
  /\ pc' = "L18"
  /\ UNCHANGED <<data, iter, filename, error, runs, deletes, pre, results, raced, removed>>

\* variant of line 21 with a slip: lines 24-26 are indented into the loop
\* body, the manifest is saved after every entry
L21_hash_then_save ==
  /\ pc = "L21"
  /\ LET h == f[Len(f)]
         newfiles == DictSet(files, filename, Sha256(h.bytes))
         newdata == [data EXCEPT !.fields = DictSet(data.fields, "files", Obj(newfiles))]
     IN /\ files' = newfiles
        /\ data' = newdata
        /\ trace' = trace \o <<Event("read", h.path, h.mode, TRUE),
                               Event("close", h.path, h.mode, TRUE),
                               Event("open", MANIFEST, "w", TRUE),
                               Event("write", MANIFEST, "w", TRUE),
                               Event("close", MANIFEST, "w", TRUE)>>
        /\ f' = SubSeq(f, 1, Len(f) - 1)
        /\ disk' = [disk EXCEPT ![MANIFEST].content = JsonDump(newdata)]
  /\ pc' = "L18"
  /\ UNCHANGED <<iter, filename, error, runs, deletes, pre, results, raced, removed>>

\* line 21: files[filename] = hashlib.sha256(f.read()).hexdigest(), then the
\* with statement closes f
L21_hash ==
  /\ pc = "L21"
  /\ LET h == f[Len(f)]
     IN /\ files' = DictSet(files, filename, Sha256(h.bytes))
        /\ trace' = trace \o <<Event("read", h.path, h.mode, TRUE), Event("close", h.path, h.mode, TRUE)>>
        /\ f' = SubSeq(f, 1, Len(f) - 1)
  /\ pc' = "L18"
  /\ UNCHANGED <<disk, data, iter, filename, error, runs, deletes, pre, results, raced, removed>>

\* variant of line 24 with a slip: data = {'files': files}
L24_assign_new_dict ==
  /\ pc = "L24"
  /\ data' = [data EXCEPT !.fields = <<<<"files", Obj(files)>>>>]
  /\ pc' = "L25"
  /\ UNCHANGED <<disk, files, iter, filename, f, error, runs, deletes, pre, trace,
                 results, raced, removed>>

\* line 24: data['files'] = files
L24_assign ==
  /\ pc = "L24"
  /\ data' = [data EXCEPT !.fields = DictSet(data.fields, "files", Obj(files))]
  /\ pc' = "L25"
  /\ UNCHANGED <<disk, files, iter, filename, f, error, runs, deletes, pre, trace,
                 results, raced, removed>>

\* line 25: with open('.cargo-checksum.json', 'w') as f: the file is
\* truncated (created if absent) when the open succeeds
L25_open_write ==
  /\ pc = "L25"
  /\ LET exc == OpenWriteError(disk, MANIFEST)
     IN /\ trace' = Append(trace, Event("open", MANIFEST, "w", exc = "none"))
        /\ IF exc # "none"
             THEN /\ disk' = disk
                  /\ Raise(exc)
                  /\ UNCHANGED f
             ELSE /\ disk' = [disk EXCEPT ![MANIFEST] =
                                IF @.kind = "absent"
                                  THEN RegularFile(Raw(0), TRUE, TRUE)
                                  ELSE [@ EXCEPT !.content = Raw(0)]]
                  /\ f' = Append(f, Handle(MANIFEST, "w", Raw(0)))
                  /\ pc' = "L26"
                  /\ UNCHANGED <<error, results>>
  /\ UNCHANGED <<data, files, iter, filename, runs, deletes, pre, raced, removed>>

\* line 26: json.dump(data, f, separators=(',', ':')), then the with
\* statement closes f. (If the file was unlinked after the open, the bytes
\* go to the unlinked file and the directory does not change.)
L26_json_dump ==
  /\ pc = "L26"
  /\ f' = SubSeq(f, 1, Len(f) - 1)
  /\ trace' = trace \o <<Event("write", MANIFEST, "w", TRUE),
                         Event("close", MANIFEST, "w", TRUE)>>
  /\ disk' = IF disk[MANIFEST].kind = "file"
               THEN [disk EXCEPT ![MANIFEST].content = JsonDump(data)]
               ELSE disk
  /\ Return
  /\ UNCHANGED <<data, files, iter, filename, runs, deletes, pre, raced, removed>>

\* lines 7-26
update_checksum_file ==
  \/ L9_exists_manifest
  \/ L13_open_manifest
  \/ L14_json_load
  \/ L17_files_iter
  \/ L18_for
  \/ L19_exists
  \/ L20_open
  \/ L21_hash
  \/ L24_assign
  \/ L25_open_write
  \/ L26_json_dump

Next == update_checksum_file

Spec == Init /\ [][Next]_vars

\* ------------------------------------------------- a non-idle workspace
\* line 26 with a failing device (disk full, I/O error): json.dump raises
\* OSError, the with statement closes f, the truncated file stays behind.
L26_write_fails ==
  /\ pc = "L26"
  /\ f' = SubSeq(f, 1, Len(f) - 1)
  /\ trace' = trace \o <<Event("write", MANIFEST, "w", FALSE),
                         Event("close", MANIFEST, "w", TRUE)>>
  /\ disk' = disk
  /\ Raise("OSError")
  /\ UNCHANGED <<data, files, iter, filename, runs, deletes, pre, raced, removed>>

\* Another process unlinks a file while the tool runs.
EnvDelete(file) ==
  /\ pc \notin {"idle", "returned", "raised"}
  /\ deletes < MaxDeletes
  /\ disk[file].kind = "file"
  /\ deletes' = deletes + 1
  /\ disk' = [disk EXCEPT ![file] = Absent]
  /\ removed' = removed \cup {file}
  /\ raced' = IF pc = "L20" /\ Resolve(filename) = file THEN raced \cup {file} ELSE raced
  /\ UNCHANGED <<pc, data, files, iter, filename, f, error, runs, pre, trace, results>>

EnvManifestStates ==
  {RegularFile(JsonText("spaced", "object", MembersOf(shape, v)), TRUE, TRUE) :
      shape \in SeqsUpTo({"package", "files"}, 1), v \in FilesValues}
    \cup {RegularFile(Raw(3), TRUE, TRUE),
          RegularFile(JsonText("spaced", "object", MembersOf(<<"files">>, Obj(<<>>))), FALSE, TRUE),
          RegularFile(JsonText("spaced", "object", MembersOf(<<"files">>, Obj(<<>>))), TRUE, FALSE),
          Absent}

InitEnv ==
  /\ disk \in {[p \in Files |->
                  IF p = MANIFEST THEN m ELSE IF p = "a.txt" THEN a ELSE b] :
                 m \in EnvManifestStates,
                 a \in {Absent, RegularFile(Raw(1), TRUE, TRUE)},
                 b \in {RegularFile(Raw(2), TRUE, TRUE), Directory}}
  /\ InitLocals

NextEnv ==
  \/ update_checksum_file
  \/ L26_write_fails
  \/ \E file \in Files : EnvDelete(file)

SpecEnv == InitEnv /\ [][NextEnv]_vars

\* ------------------------------------------------------------ properties
Finished == pc \in {"returned", "raised"}
\* the manifest was written in this run
Wrote == \E i \in 1..Len(trace) : trace[i].op = "write" /\ trace[i].ok
\* the run went through to the end of the function and saved the manifest
Completed == pc = "returned" /\ Wrote

KeySet(d) == {d[i][1] : i \in 1..Len(d)}

\* the manifest as the run found it, decoded
Input == JsonLoad(pre[MANIFEST].content).data
InputFiles == DictGet(Input.fields, "files")
\* the manifest now on disk, decoded
Written == JsonLoad(disk[MANIFEST].content).data
WrittenFiles == DictGet(Written.fields, "files").members

\* the paths the document in a manifest file lists
PathsListedIn(st) ==
  LET r == JsonLoad(st.content)
  IN IF st.kind = "file" /\ r.ok /\ r.data.top = "object" /\ HasKey(r.data.fields, "files")
       THEN LET v == DictGet(r.data.fields, "files")
            IN {IterOf(v)[i] : i \in 1..Len(IterOf(v))}
       ELSE {}
ListsManifest(st) == \E k \in PathsListedIn(st) : Resolve(k) = MANIFEST

\* C1 (dangling-entry removal): when `files` is a mapping and the run
\* completes, the keys of the written `files` are exactly the input keys whose
\* path existed: none missing is kept, none existing is dropped, none is added.
C1_DanglingEntryRemoval ==
  (Completed /\ InputFiles.type = "object")
    => KeySet(WrittenFiles) = {k \in KeySet(InputFiles.members) : Exists(pre, k)}

C1_Witness ==
  /\ Completed
  /\ InputFiles.type = "object"
  /\ \E k \in KeySet(InputFiles.members) : ~Exists(pre, k)
  /\ \E k \in KeySet(InputFiles.members) : Exists(pre, k)

\* C2 as stated (digest invariant): after a completed run every key of the
\* written `files` names a file that exists, and its value is the SHA-256
\* digest of the content that file has once the run has finished, also when
\* the key names the manifest itself.
C2_DigestOfFinalContent ==
  Completed =>
    \A i \in 1..Len(WrittenFiles) :
      /\ Exists(disk, WrittenFiles[i][1])
      /\ WrittenFiles[i][2] = Sha256(disk[Resolve(WrittenFiles[i][1])].content)

\* C2 amended: as C2, except that the value of a key naming the manifest
\* itself is the digest of the manifest as it was before the run overwrote it.
C2_DigestInvariant ==
  Completed =>
    \A i \in 1..Len(WrittenFiles) :
      LET p == Resolve(WrittenFiles[i][1])
      IN /\ Exists(disk, WrittenFiles[i][1])
         /\ WrittenFiles[i][2] =
              Sha256(IF p = MANIFEST THEN pre[MANIFEST].content ELSE disk[p].content)

C2_Witness ==
  /\ Completed
  /\ \E i \in 1..Len(WrittenFiles) : Resolve(WrittenFiles[i][1]) = MANIFEST
  /\ \E i \in 1..Len(WrittenFiles) : Resolve(WrittenFiles[i][1]) # MANIFEST

\* C3 as stated (idempotence): for every workspace, the manifest file after a
\* run equals the manifest file after the run before it.
C3_IdempotentAlways ==
  \A i \in 2..Len(results) : results[i] = results[i - 1]

\* C3 amended: the manifest file after a run equals the manifest file after
\* the run before it, provided the manifest does not list the manifest file
\* itself.
C3_Idempotent ==
  \A i \in 2..Len(results) :
    ~ListsManifest(results[i - 1]) => results[i] = results[i - 1]

C3_Witness ==
  /\ Len(results) >= 2
  /\ Completed
  /\ ~ListsManifest(results[1])
  /\ WrittenFiles # <<>>
  /\ Len(Written.fields) >= 2

\* every listed path that existed has an entry in the written manifest
AllExistingRecorded ==
  \A k \in PathsListedIn(pre[MANIFEST]) : Exists(pre, k) => k \in KeySet(WrittenFiles)

\* C4 (abort leaves the manifest unchanged): a run that ends by an exception
\* leaves the manifest file as it found it; the manifest differs from its
\* pre-run state only while line 26 is writing it or after the run returned
\* with `files` rebuilt from every listed path, never with a part of them.
C4_AbortLeavesManifest ==
  /\ pc = "raised" => disk[MANIFEST] = pre[MANIFEST]
  /\ disk[MANIFEST] # pre[MANIFEST] => pc \in {"L26", "returned"}
  /\ (pc = "returned" /\ disk[MANIFEST] # pre[MANIFEST]) =>
       /\ iter = <<>>
       /\ disk[MANIFEST].content = JsonDump(data)
       /\ AllExistingRecorded

C4_Witness ==
  /\ pc = "raised"
  /\ error \in {"PermissionError", "IsADirectoryError"}
  /\ files # <<>>
  /\ trace[Len(trace)].mode = "rb"

\* C5 (no-op when absent): a run that finds no manifest returns without an
\* exception, opens nothing and leaves every file, the absent manifest
\* included, as it was.
C5_NoOpWhenAbsent ==
  (runs >= 1 /\ pre[MANIFEST].kind = "absent") =>
    /\ pc = "returned"
    /\ error = "none"
    /\ disk = pre
    /\ f = <<>>
    /\ \A i \in 1..Len(trace) : trace[i].op = "exists"

C5_Witness == runs >= 1 /\ pre[MANIFEST].kind = "absent" /\ Finished

\* C6 (field preservation): after a completed run the written manifest has
\* the top-level members of the input, in the input's order, and every member
\* other than `files` has the value it had.
C6_FieldPreservation ==
  Completed =>
    /\ DictKeys(Written.fields) = DictKeys(Input.fields)
    /\ \A i \in 1..Len(Input.fields) :
         Input.fields[i][1] # "files" => Written.fields[i] = Input.fields[i]

C6_Witness ==
  /\ Completed
  /\ Len(Input.fields) >= 2
  /\ Input.fields[1][1] = "files"
  /\ WrittenFiles # InputFiles.members

\* only the manifest is ever opened for writing or written
OnlyManifestOpenedForWriting ==
  \A i \in 1..Len(trace) :
    (trace[i].mode = "w" \/ trace[i].op = "write") => Resolve(trace[i].path) = MANIFEST

\* C7 as stated (side effects): only the manifest is opened for writing, and
\* every file a key of `files` names has after the run the content it had
\* before, whatever the key names.
C7_ListedFilesUntouched ==
  /\ OnlyManifestOpenedForWriting
  /\ Finished => \A k \in PathsListedIn(pre[MANIFEST]) : disk[Resolve(k)] = pre[Resolve(k)]

\* C7 amended: only the manifest is opened for writing, and every file other
\* than the manifest, listed or not, is at most read and keeps its content (a
\* manifest that lists itself is the one listed file the run writes).
C7_SideEffects ==
  /\ OnlyManifestOpenedForWriting
  /\ \A p \in Files \ {MANIFEST} : disk[p] = pre[p]
  /\ \A i \in 1..Len(trace) :
       Resolve(trace[i].path) # MANIFEST => trace[i].mode \in {"", "rb"}

C7_Witness ==
  /\ Completed
  /\ \E i \in 1..Len(trace) :
       trace[i].op = "read" /\ trace[i].mode = "rb" /\ Resolve(trace[i].path) # MANIFEST

ReadsOfManifest ==
  {i \in 1..Len(trace) : trace[i].op = "read" /\ Resolve(trace[i].path) = MANIFEST}
\* the reads line 14 makes
LoadReads == {i \in 1..Len(trace) : trace[i].op = "read" /\ trace[i].mode = "r"}
OpensForWriting == {i \in 1..Len(trace) : trace[i].op = "open" /\ trace[i].mode = "w"}
Writes == {i \in 1..Len(trace) : trace[i].op = "write"}

\* a listed path is examined (checked, opened or read) only after line 14
\* has read the manifest
LoadBeforeListed ==
  \A i \in 2..Len(trace) :
    trace[i].mode \in {"", "rb"} => \E j \in 1..(i - 1) : j \in LoadReads

\* once the manifest is opened for writing, nothing but its write and close
\* follows: no existence check, no open, no read
NothingAfterWriteBegins ==
  \A i \in OpensForWriting :
    \A j \in (i + 1)..Len(trace) :
      trace[j].mode = "w" /\ trace[j].op \in {"write", "close"}

\* C8 as stated (lifecycle ordering): in every run the manifest is read
\* exactly once, before any listed file is examined, and written at most once,
\* after every existence check and read.
C8_ReadExactlyOnce ==
  /\ Finished => Cardinality(ReadsOfManifest) = 1
  /\ Cardinality(Writes) <= 1
  /\ LoadBeforeListed
  /\ NothingAfterWriteBegins

\* C8 amended: line 14 reads the manifest exactly once in every run that
\* finds the manifest and can open it, and never otherwise (a run that finds
\* none reads nothing); every other read of the manifest is the read of a listed
\* path that names it; no listed path is examined before line 14 has read the
\* manifest; the manifest is opened for writing and written at most once, and
\* nothing but that write follows the open.
C8_LifecycleOrdering ==
  /\ Cardinality(LoadReads) <= 1
  /\ Finished =>
       (Cardinality(LoadReads) = 1 <=>
          (pre[MANIFEST].kind = "file" /\ pre[MANIFEST].readable))
  /\ \A i \in ReadsOfManifest \ LoadReads : trace[i].mode = "rb"
  /\ Cardinality(OpensForWriting) <= 1
  /\ Cardinality(Writes) <= 1
  /\ LoadBeforeListed
  /\ NothingAfterWriteBegins

C8_Witness ==
  /\ Completed
  /\ Cardinality(ReadsOfManifest) = 2
  /\ \E i \in 1..Len(trace) : trace[i].op = "exists" /\ i > 1 /\ ~trace[i].ok

\* C9 (handle release): at most one file object is open at any moment, and
\* none is open when the run has ended, by return or by any exception.
C9_HandleRelease ==
  /\ Len(f) <= 1
  /\ pc \in {"idle", "returned", "raised"} => f = <<>>

C9_Witness ==
  /\ pc = "raised"
  /\ error \in {"JSONDecodeError", "OSError"}
  /\ f = <<>>

\* an entry is left out without an exception only when os.path.exists
\* answered false for it
DroppedOnlyWhenAbsent ==
  (pc = "L18" /\ filename # "" /\ ~HasKey(files, filename))
    => trace[Len(trace)] = Event("exists", filename, "", FALSE)

\* C10 as stated (check-then-open race): when the external actor deletes a
\* listed file between its existence check and its open, the run ends by
\* FileNotFoundError and the manifest file is in its pre-run state; an entry
\* is dropped silently only when the path was absent at the check.
C10_RaceLeavesManifest ==
  /\ (raced # {} /\ pc # "L20") =>
       /\ pc = "raised"
       /\ error = "FileNotFoundError"
       /\ disk[MANIFEST] = pre[MANIFEST]
  /\ DroppedOnlyWhenAbsent

\* C10 amended: when the external actor deletes a listed file between its
\* existence check and its open, the run ends by FileNotFoundError without
\* recording the entry and without opening the manifest for writing, so the
\* manifest file is in its pre-run state unless the actor deleted the
\* manifest itself; an entry is dropped silently only when the path was
\* absent at the check.
C10_CheckThenOpenRace ==
  /\ (raced # {} /\ pc # "L20") =>
       /\ pc = "raised"
       /\ error = "FileNotFoundError"
       /\ ~HasKey(files, filename)
       /\ OpensForWriting = {}
       /\ MANIFEST \notin removed => disk[MANIFEST] = pre[MANIFEST]
  /\ DroppedOnlyWhenAbsent

C10_Witness ==
  /\ pc = "raised"
  /\ raced # {}
  /\ MANIFEST \notin raced
  /\ files # <<>>

====
